---- MODULE Spec2Model ----
(***************************************************************************)
(* HexScribe: the clipped hex lattice (hexscribe/hexgrid.py), the trail    *)
(* router (hexscribe/trails.py) and the rendering pass that drives them    *)
(* (hexscribe/renderer.py, run_interactive.py).                            *)
(*                                                                         *)
(* Numbers.  The program computes in floating point; the model computes    *)
(* in integers with explicit units:                                        *)
(*   - the cell edge length s in 1/1000 px (cell_size),                    *)
(*   - candidate cell centres in 1/2000 px before int() truncates them,    *)
(*   - polyline points in 1/16 px (two Chaikin passes of integer pixel     *)
(*     centres are exact in that unit),                                    *)
(*   - A* costs in 1/100 of a step.                                        *)
(* int() is truncation toward zero (TruncDiv), sqrt(3) is 1732/1000.       *)
(***************************************************************************)
EXTENDS Integers, Sequences, FiniteSets, TLC

(* ------------------------------------------------------------------ *)
(* Arithmetic helpers                                                   *)
(* ------------------------------------------------------------------ *)

Abs(x) == IF x < 0 THEN -x ELSE x

Min2(a, b) == IF a <= b THEN a ELSE b

Max2(a, b) == IF a >= b THEN a ELSE b

\* Python's int(a / b) for b # 0: the quotient truncated toward zero.
TruncDiv(a, b) ==
  IF (a >= 0) = (b > 0) THEN Abs(a) \div Abs(b) ELSE -(Abs(a) \div Abs(b))

\* Python's a // b for b > 0 (floor division).
FloorDiv(a, b) == a \div b

RECURSIVE ISqrtIter(_, _, _)
ISqrtIter(n, lo, hi) ==
  IF lo >= hi THEN lo
  ELSE LET mid == (lo + hi + 1) \div 2
       IN  IF mid * mid <= n THEN ISqrtIter(n, mid, hi)
           ELSE ISqrtIter(n, lo, mid - 1)

\* floor(sqrt(n)) for 0 <= n < 2^31
ISqrt(n) == ISqrtIter(n, 0, 46340)

\* a / b rounded to the nearest integer, b > 0
RoundDiv(a, b) ==
  IF a >= 0 THEN (2 * a + b) \div (2 * b) ELSE -((2 * (-a) + b) \div (2 * b))

SeqToSet(s) == {s[k] : k \in 1..Len(s)}

RECURSIVE Concat(_)
Concat(ss) == IF ss = << >> THEN << >> ELSE Head(ss) \o Concat(Tail(ss))

Reverse(s) == [k \in 1..Len(s) |-> s[Len(s) + 1 - k]]

(* ------------------------------------------------------------------ *)
(* Units and program constants                                          *)
(* ------------------------------------------------------------------ *)

\* math.sqrt(3) in thousandths
SQ3K == 1732

\* polyline unit: 16 sub-pixels per pixel
SUB == 16

\* one A* step (1.0) in cost units
STEP == 100

\* the corridor-reuse penalty (2.0) in cost units
REUSE_PENALTY == 200

\* keep spacing between trails so they don't pile up (px)
NO_OVERLAP_DIST == 14

\* jitter of up to 0.6 of a step
JittersWide == {0, 60}

\* the values random.uniform(0.0, 0.25) is sampled at, in cost units: the
\* two ends of the half-open range [0, 0.25)
Jitters == {0, 24}

\* the default of g.get(nbr, 1e9), in cost units capped to the integer range
G_INF == 1000000000

Styles == {"path", "difficult", "dangerous", "special"}

(* ------------------------------------------------------------------ *)
(* HexGrid                                                              *)
(* ------------------------------------------------------------------ *)

\* axial neighbor deltas for flat-top layout
AXIAL_DIRS == << <<1, 0>>, <<1, -1>>, <<0, -1>>, <<-1, 0>>, <<-1, 1>>, <<0, 1>> >>

\* a constructor that keeps cells_across as given
HexGridUnclamped(cells_across) ==
  [cells_across |-> cells_across,
   diamond_r    |-> 10,
   nodes        |-> << >>,
   big_hex      |-> <<0, 0, 0>>,
   cell_size    |-> 0]

\* HexGrid.__init__: the grid object before any draw_grid
HexGrid(cells_across) ==
  [cells_across |-> Max2(2, cells_across),
   diamond_r    |-> 10,
   nodes        |-> << >>,
   big_hex      |-> <<0, 0, 0>>,
   cell_size    |-> 0]

\* a test that forgets the slanted edges: the bounding box of the hexagon
point_in_hex_box(R, px, py) == ~(px > R \/ 1000 * py > 866 * R + 2000 * 1000)

\* point_in_hex with the centre offsets px = |x - cx|, py = |y - cy| and the
\* radius R all in 1/2000 px; the tolerance of 1 px is 2000 units
point_in_hex(R, px, py) ==
  IF px > R \/ 1000 * py > 866 * R + 2000 * 1000 THEN FALSE
  ELSE SQ3K * px + 1000 * py <= SQ3K * R + 2000 * 1000

\* the radius R of the big hexagon for a bounding rectangle
BigHexR(rect) ==
  TruncDiv(Min2(rect.right - rect.left, rect.bottom - rect.top), 2) - 6

\* s = (4.0 * R) / (3.0 * C + 1.0) * 0.985, in 1/1000 px
CellSize(C, R) == TruncDiv(4 * R * 985, 3 * C + 1)

\* draw_grid divides by s: R = 0 gives s = 0 and ZeroDivisionError
DrawGridRaises(C, rect) == CellSize(C, BigHexR(rect)) = 0

\* the nodes draw_grid retains, in its enumeration order (q outer, r inner)
GridNodes(C, rect) ==
  LET cx    == FloorDiv(rect.left + rect.right, 2)
      cy    == FloorDiv(rect.top + rect.bottom, 2)
      R     == BigHexR(rect)
      s     == CellSize(C, R)
      q_max == TruncDiv(2000 * R, 3 * s) + 3
      r_max == TruncDiv(1000 * 1000 * R, SQ3K * s) + 3
      h     == TruncDiv(SQ3K * s, 1000)
      nq    == 2 * q_max + 1
      nr    == 2 * r_max + 1
      Rin   == 2000 * R - TruncDiv(24 * s, 10)
      cand  == [k \in 1..(nq * nr) |->
                  LET q == ((k - 1) \div nr) - q_max
                      r == ((k - 1) % nr) - r_max
                  IN  [q |-> q, r |-> r,
                       dx |-> 3 * s * q, dy |-> h * (2 * r + q)]]
      kept  == SelectSeq(cand, LAMBDA c : point_in_hex(Rin, Abs(c.dx), Abs(c.dy)))
  IN  [k \in 1..Len(kept) |->
         [q |-> kept[k].q, r |-> kept[k].r,
          x |-> TruncDiv(2000 * cx + kept[k].dx, 2000),
          y |-> TruncDiv(2000 * cy + kept[k].dy, 2000)]]

\* self.big_hex = (cx, cy, R)
BigHex(rect) ==
  <<FloorDiv(rect.left + rect.right, 2), FloorDiv(rect.top + rect.bottom, 2),
    BigHexR(rect)>>

\* HexGrid.draw_grid: rebuilds nodes / node_lookup / centers
draw_grid(grid, rect) ==
  [grid EXCEPT !.nodes     = GridNodes(grid.cells_across, rect),
               !.cell_size = CellSize(grid.cells_across, BigHexR(rect)),
               !.big_hex   = BigHex(rect)]

\* grid.centers: the pixel centre of every node, in node order
centers(grid) == [k \in 1..Len(grid.nodes) |-> <<grid.nodes[k].x, grid.nodes[k].y>>]

\* the key set of grid.node_lookup
Cells(grid) == {<<grid.nodes[k].q, grid.nodes[k].r>> : k \in 1..Len(grid.nodes)}

\* grid.node_lookup[(q, r)]: a later node overwrites an earlier one
node_lookup(grid, c) ==
  LET ks == {k \in 1..Len(grid.nodes) : <<grid.nodes[k].q, grid.nodes[k].r>> = c}
      k  == CHOOSE m \in ks : \A n \in ks : n <= m
  IN  <<grid.nodes[k].x, grid.nodes[k].y>>

\* a neighbors that returns all six offsets, members or not
neighbors_unchecked(grid, c) ==
  [d \in 1..6 |-> <<c[1] + AXIAL_DIRS[d][1], c[2] + AXIAL_DIRS[d][2]>>]

\* HexGrid.neighbors(q, r): member cells among the six offsets, in AXIAL_DIRS order
neighbors(grid, c) ==
  LET all == [d \in 1..6 |-> <<c[1] + AXIAL_DIRS[d][1], c[2] + AXIAL_DIRS[d][2]>>]
  IN  SelectSeq(all, LAMBDA n : n \in Cells(grid))

\* draw_diamond's r = int(max(8, cell_size * diamond_scale)), diamond_scale = 0.55
DiamondRadius(grid) == Max2(8, TruncDiv(grid.cell_size * 55, 100 * 1000))

(* ------------------------------------------------------------------ *)
(* TrailRouter: pure helpers                                            *)
(* ------------------------------------------------------------------ *)

\* Python's tuple order on axial cells
CellLess(a, b) == a[1] < b[1] \/ (a[1] = b[1] /\ a[2] < b[2])

\* _edge_key: tuple(sorted([a, b]))
edge_key(a, b) == IF CellLess(b, a) THEN <<b, a>> ELSE <<a, b>>

\* a picker that gives each style two faces of the die
style_of_even(r) ==
  IF r <= 2 THEN "path"
  ELSE IF r <= 4 THEN "difficult"
  ELSE IF r <= 6 THEN "dangerous"
  ELSE "special"

\* _style: the style for the die roll r = random.randint(1, 8)
style_of(r) ==
  IF 1 <= r /\ r <= 4 THEN "path"
  ELSE IF 5 <= r /\ r <= 6 THEN "difficult"
  ELSE IF r = 7 THEN "dangerous"
  ELSE "special"

\* the None that _closest_node returns on a lattice without nodes: no lattice cell
NoneCell == <<-99, -99>>

\* _closest_node: the first node at minimal squared distance
closest_node(grid, p) ==
  IF grid.nodes = << >> THEN NoneCell ELSE
  LET d2(k) == (grid.nodes[k].x - p[1]) * (grid.nodes[k].x - p[1])
             + (grid.nodes[k].y - p[2]) * (grid.nodes[k].y - p[2])
      k == CHOOSE m \in 1..Len(grid.nodes) :
             \A n \in 1..Len(grid.nodes) :
               d2(m) < d2(n) \/ (d2(m) = d2(n) /\ m <= n)
  IN  <<grid.nodes[k].q, grid.nodes[k].r>>

\* a heuristic that leaves out the halving
astar_h_whole(p, goal) ==
  STEP * (Abs(p[1] - goal[1]) + Abs((p[1] + p[2]) - (goal[1] + goal[2]))
          + Abs(p[2] - goal[2]))

\* _astar.h: hex distance to the goal, in cost units
astar_h(p, goal) ==
  (STEP * (Abs(p[1] - goal[1]) + Abs((p[1] + p[2]) - (goal[1] + goal[2]))
           + Abs(p[2] - goal[2]))) \div 2

\* heap order on (f, node) entries
EntryLess(e1, e2) == e1[1] < e2[1] \/ (e1[1] = e2[1] /\ CellLess(e1[2], e2[2]))

\* heapq.heappop: the least entry of the open queue
heap_min(openq) == CHOOSE e \in openq : \A o \in openq : o = e \/ EntryLess(e, o)

\* a lookup whose default is 0 instead of 1e9
g_get_zero(g, n) == IF n \in DOMAIN g THEN g[n] ELSE 0

\* g.get(nbr, 1e9)
g_get(g, n) == IF n \in DOMAIN g THEN g[n] ELSE G_INF

\* a step that lowers the cost instead of raising it
step_cost_negative(used_edges, cur, nbr, j) == 0 - STEP

\* the step cost of edge (cur, nbr) with jitter j
step_cost(used_edges, cur, nbr, j) ==
  STEP + (IF edge_key(cur, nbr) \in used_edges THEN REUSE_PENALTY ELSE 0) + j

\* a for-loop that evaluated every neighbour, blocked or not
open_neighbors_unfiltered(grid, blocked, cur) == neighbors(grid, cur)

\* the neighbours the for-loop of _astar evaluates: those not blocked
open_neighbors(grid, blocked, cur) ==
  SelectSeq(neighbors(grid, cur), LAMBDA n : n \notin blocked)

\* the back-pointer walk: cur, came[cur], ... (goal first)
RECURSIVE walk_back(_, _, _)
walk_back(came, cur, fuel) ==
  IF cur \in DOMAIN came /\ fuel > 0
  THEN <<cur>> \o walk_back(came, came[cur], fuel - 1)
  ELSE <<cur>>

\* a relaxation pass that points every evaluated neighbour back at cur,
\* improved or not
relax_eager(s, used_edges, cur, nb, jit) ==
  LET ng(k)   == s.g[cur] + step_cost(used_edges, cur, nb[k], jit[k])
      better  == {k \in 1..Len(nb) : ng(k) < g_get(s.g, nb[k])}
      cellsB  == {nb[k] : k \in better}
      idx(c)  == CHOOSE k \in better : nb[k] = c
  IN  [s EXCEPT
        !.g     = [c \in (DOMAIN s.g) \cup cellsB |->
                     IF c \in cellsB THEN ng(idx(c)) ELSE s.g[c]],
        !.came  = [c \in (DOMAIN s.came) \cup SeqToSet(nb) |->
                     IF c \in SeqToSet(nb) THEN cur ELSE s.came[c]],
        !.openq = (s.openq \ {heap_min(s.openq)})
                    \cup {<<ng(k) + astar_h(nb[k], s.goal), nb[k]>> : k \in better}]

\* one relaxation pass of the for-loop: the search after evaluating the
\* neighbours nb of cur with the jitters jit (nb[k] gets jit[k])
relax(s, used_edges, cur, nb, jit) ==
  LET ng(k)   == s.g[cur] + step_cost(used_edges, cur, nb[k], jit[k])
      better  == {k \in 1..Len(nb) : ng(k) < g_get(s.g, nb[k])}
      cellsB  == {nb[k] : k \in better}
      idx(c)  == CHOOSE k \in better : nb[k] = c
  IN  [s EXCEPT
        !.g     = [c \in (DOMAIN s.g) \cup cellsB |->
                     IF c \in cellsB THEN ng(idx(c)) ELSE s.g[c]],
        !.came  = [c \in (DOMAIN s.came) \cup cellsB |->
                     IF c \in cellsB THEN cur ELSE s.came[c]],
        !.openq = (s.openq \ {heap_min(s.openq)})
                    \cup {<<ng(k) + astar_h(nb[k], s.goal), nb[k]>> : k \in better}]

\* _poly_from_axial, in sub-pixels
poly_from_axial(grid, path_ax) ==
  [k \in 1..Len(path_ax) |->
     <<SUB * node_lookup(grid, path_ax[k])[1], SUB * node_lookup(grid, path_ax[k])[2]>>]

\* an iteration that only cuts corners and drops the two end points
chaikin_once_open(out) ==
  Concat([k \in 1..(Len(out) - 1) |->
            << <<(3 * out[k][1] + out[k + 1][1]) \div 4, (3 * out[k][2] + out[k + 1][2]) \div 4>>,
               <<(out[k][1] + 3 * out[k + 1][1]) \div 4, (out[k][2] + 3 * out[k + 1][2]) \div 4>> >>])

\* an iteration that emits the two cut points of each edge far one first
chaikin_once_swapped(out) ==
  <<out[1]>>
    \o Concat([k \in 1..(Len(out) - 1) |->
          << <<(out[k][1] + 3 * out[k + 1][1]) \div 4, (out[k][2] + 3 * out[k + 1][2]) \div 4>>,
             <<(3 * out[k][1] + out[k + 1][1]) \div 4, (3 * out[k][2] + out[k + 1][2]) \div 4>> >>])
    \o <<out[Len(out)]>>

\* one Chaikin iteration: first point, the 25% / 75% points of each edge, last point
chaikin_once(out) ==
  LET cut(k) == LET a == out[k]
                    b == out[k + 1]
                IN  << <<(3 * a[1] + b[1]) \div 4, (3 * a[2] + b[2]) \div 4>>,
                       <<(a[1] + 3 * b[1]) \div 4, (a[2] + 3 * b[2]) \div 4>> >>
  IN  <<out[1]>> \o Concat([k \in 1..(Len(out) - 1) |-> cut(k)]) \o <<out[Len(out)]>>

RECURSIVE chaikin_iter(_, _)
chaikin_iter(out, iters) ==
  IF iters = 0 THEN out ELSE chaikin_iter(chaikin_once(out), iters - 1)

\* _chaikin
chaikin(pts, iters) == IF Len(pts) < 3 THEN pts ELSE chaikin_iter(pts, iters)

\* _trim_to_diamond_edge: the point at radius_px + 2 from center toward `toward`
trim_to_diamond_edge(center, toward, radius_px) ==
  LET dx   == toward[1] - center[1]
      dy   == toward[2] - center[2]
      d2   == dx * dx + dy * dy
      L16  == ISqrt(256 * d2)
      len  == (radius_px + 2) * SUB
  IN  IF d2 = 0 THEN center
      ELSE <<center[1] + RoundDiv(dx * len * 16, L16),
             center[2] + RoundDiv(dy * len * 16, L16)>>

\* squared distance of two sub-pixel points
dist2(p, q) == (p[1] - q[1]) * (p[1] - q[1]) + (p[2] - q[2]) * (p[2] - q[2])

\* a guard that lets every polyline through
spacing_unchecked(poly, existing_samples) == TRUE

\* the spacing guard: no point of poly is nearer than NO_OVERLAP_DIST to a sample
spacing_ok(poly, existing_samples) ==
  \A k \in 1..Len(poly) : \A m \in 1..Len(existing_samples) :
    ~(dist2(poly[k], existing_samples[m]) < (NO_OVERLAP_DIST * SUB) * (NO_OVERLAP_DIST * SUB))

\* the polyline of a route left unsmoothed: centres, both ends trimmed
trail_poly_raw(grid, path_ax, diamond_radius) ==
  LET p0 == poly_from_axial(grid, path_ax)
      n  == Len(p0)
      p1 == [p0 EXCEPT ![1] = trim_to_diamond_edge(p0[1], p0[2], diamond_radius)]
  IN  [p1 EXCEPT ![n] = trim_to_diamond_edge(p1[n], p1[n - 1], diamond_radius)]

\* the polyline of a route: centres, smoothed, both ends trimmed
trail_poly(grid, path_ax, diamond_radius) ==
  LET p0 == chaikin(poly_from_axial(grid, path_ax), 2)
      n  == Len(p0)
      p1 == [p0 EXCEPT ![1] = trim_to_diamond_edge(p0[1], p0[2], diamond_radius)]
  IN  [p1 EXCEPT ![n] = trim_to_diamond_edge(p1[n], p1[n - 1], diamond_radius)]

\* dash length and gap of the special style, the clearance kept from the two
\* ends of the polyline and the pad added to a diamond's circle, in px
DASH_LEN == 8

DASH_GAP == 6

EDGE_CLEAR == 10

CIRCLE_PAD == 4

\* the point at distance pos (sub-pixels) from a toward b, L the length of a-b
along(a, b, L, pos) ==
  <<a[1] + RoundDiv((b[1] - a[1]) * pos, L), a[2] + RoundDiv((b[2] - a[2]) * pos, L)>>

\* a filter that never looks at the diamonds
near_no_circle(p, circles, pad) == FALSE

\* p is within pad px of one of the (x, y, r) circles, or on its rim
near_any_circle(p, circles, pad) ==
  \E k \in 1..Len(circles) :
    dist2(p, <<SUB * circles[k][1], SUB * circles[k][2]>>)
      <= ((circles[k][3] + pad) * SUB) * ((circles[k][3] + pad) * SUB)

\* the turns of the while-loop over one segment a-b of a special trail
\* (lines 195-210): turn j starts at pos = j * (dash_len + gap) < seg_len, and
\* draw_dash, on at pos 0, flips after every turn
segment_dashes(pts, i, circles) ==
  LET a      == pts[i]
      b      == pts[i + 1]
      d2     == dist2(a, b)
      L      == ISqrt(d2)
      period == (DASH_LEN + DASH_GAP) * SUB
      last   == L \div period + 1
      turns  == {j \in 0..last : (j * period) * (j * period) < d2}
      dash(j) ==
        LET pos  == j * period
            epos == Min2(L, pos + DASH_LEN * SUB)
            s    == along(a, b, L, pos)
            e    == along(a, b, L, epos)
            mid  == <<(s[1] + e[1]) \div 2, (s[2] + e[2]) \div 2>>
        IN  [seg |-> i, s |-> s, e |-> e, mid |-> mid,
             draw_dash |-> j % 2 = 0,
             near_end |-> \/ dist2(mid, pts[1]) < (EDGE_CLEAR * SUB) * (EDGE_CLEAR * SUB)
                          \/ dist2(mid, pts[Len(pts)]) < (EDGE_CLEAR * SUB) * (EDGE_CLEAR * SUB),
             near_circle |-> near_any_circle(mid, circles, CIRCLE_PAD)]
  IN  IF d2 = 0 THEN << >>
      ELSE [n \in 1..Cardinality(turns) |-> dash(n - 1)]

\* every turn of the dash loop of a special trail, in order
dashes(pts, circles) ==
  Concat([i \in 1..(Len(pts) - 1) |-> segment_dashes(pts, i, circles)])

\* the dash of that turn is drawn
dash_drawn(c) == c.draw_dash /\ ~c.near_end /\ ~c.near_circle

RECURSIVE dash_lines(_)
dash_lines(cs) ==
  IF cs = << >> THEN << >>
  ELSE (IF dash_drawn(Head(cs))
        THEN << [op |-> "line", pts |-> <<Head(cs).s, Head(cs).e>>, width |-> 2] >>
        ELSE << >>) \o dash_lines(Tail(cs))

\* spacing of the ticks of difficult and of the chevrons of dangerous, half
\* the length of a tick and the length of a barb, in px
TICK_STEP == 10

CHEVRON_STEP == 14

TICK == 5

BARB == 6

\* _evenly_sample from segment i on: acc the samples so far, carry the length
\* walked since the last sample, step the spacing, in sub-pixels.  Each
\* segment starts from the last sample kept and its last sample (the last of
\* all, when the segment adds none) is overwritten by the segment's end
RECURSIVE resample(_, _, _, _, _)
resample(pts, i, acc, carry, step) ==
  IF i > Len(pts) - 1 THEN acc
  ELSE LET a   == acc[Len(acc)]
           b   == pts[i + 1]
           d2  == dist2(a, b)
           seg == ISqrt(d2)
           t0  == step - carry
           cnt == IF t0 > seg THEN 0 ELSE (seg - t0) \div step + 1
           all == acc \o [j \in 1..cnt |-> along(a, b, seg, t0 + (j - 1) * step)]
       IN  IF d2 = 0 THEN resample(pts, i + 1, acc, carry, step)
           ELSE resample(pts, i + 1, [all EXCEPT ![Len(all)] = b],
                         seg - (t0 + (cnt - 1) * step), step)

\* _evenly_sample(pts, step), step in px
evenly_sample(pts, step) ==
  IF Len(pts) < 2 THEN pts ELSE resample(pts, 1, <<pts[1]>>, 0, step * SUB)

\* _safe_positions: the indices of the resampled points, first and last left
\* out, that are clear of every circle by more than 4 px and 10 px or more
\* from both ends of the polyline
safe_positions(step_pts, pts, circles) ==
  LET ok(i) == /\ ~near_any_circle(step_pts[i], circles, CIRCLE_PAD)
               /\ ~(dist2(step_pts[i], pts[1]) < (EDGE_CLEAR * SUB) * (EDGE_CLEAR * SUB))
               /\ ~(dist2(step_pts[i], pts[Len(pts)]) < (EDGE_CLEAR * SUB) * (EDGE_CLEAR * SUB))
  IN  {i \in 2..(Len(step_pts) - 1) : ok(i)}

\* len px along the unit vector from p to q, in sub-pixels (`or 1.0` for p = q)
unit_times(p, q, len) ==
  LET L == ISqrt(dist2(p, q))
  IN  IF dist2(p, q) = 0 THEN <<(q[1] - p[1]) * len * SUB, (q[2] - p[2]) * len * SUB>>
      ELSE <<RoundDiv((q[1] - p[1]) * len * SUB, L), RoundDiv((q[2] - p[2]) * len * SUB, L)>>

\* the tick of difficult at step_pts[i]: 5 px to each side, across p-q
tick_line(step_pts, i) ==
  LET c == step_pts[i]
      u == unit_times(step_pts[i - 1], step_pts[i + 1], TICK)
  IN  [op |-> "line", width |-> 2,
       pts |-> << <<c[1] + u[2], c[2] - u[1]>>, <<c[1] - u[2], c[2] + u[1]>> >>]

\* the two barb ends of the chevron of dangerous at step_pts[i]
barb_ends(step_pts, i) ==
  LET c == step_pts[i]
      u == unit_times(step_pts[i - 1], step_pts[i + 1], BARB)
  IN  << <<c[1] - u[1] - u[2], c[2] - u[2] + u[1]>>,
         <<c[1] - u[1] + u[2], c[2] - u[2] - u[1]>> >>

RECURSIVE ornaments(_, _, _, _, _)
\* the ticks or chevrons of a trail from resampled position i on
ornaments(step_pts, safe, circles, style, i) ==
  IF i > Len(step_pts) - 1 THEN << >>
  ELSE LET ends == barb_ends(step_pts, i)
           here ==
             IF i \notin safe THEN << >>
             ELSE IF style = "difficult" THEN << tick_line(step_pts, i) >>
             ELSE IF \/ near_any_circle(ends[1], circles, CIRCLE_PAD)
                     \/ near_any_circle(ends[2], circles, CIRCLE_PAD)
             THEN << >>
             ELSE << [op |-> "line", width |-> 2,
                      pts |-> <<ends[1], step_pts[i], ends[2]>>] >>
       IN  here \o ornaments(step_pts, safe, circles, style, i + 1)

\* the resampled positions of a difficult or dangerous trail
step_points(pts, style) ==
  evenly_sample(pts, IF style = "difficult" THEN TICK_STEP ELSE CHEVRON_STEP)

\* _stroke: the draw commands of one trail: the main stroke over the whole
\* polyline, then the ticks of difficult, the chevrons of dangerous or the
\* dashes of special
stroke(pts, style, avoid_circles) ==
  << [op |-> "line", pts |-> pts, width |-> 2] >>
    \o (IF style = "special" THEN dash_lines(dashes(pts, avoid_circles))
        ELSE IF style \in {"difficult", "dangerous"}
        THEN ornaments(step_points(pts, style),
                       safe_positions(step_points(pts, style), pts, avoid_circles),
                       avoid_circles, style, 2)
        ELSE << >>)

(* ------------------------------------------------------------------ *)
(* The random source                                                    *)
(* ------------------------------------------------------------------ *)

\* The stream of a seeded generator is a function of the seed and of the
\* calls made so far.  tape[seed] holds the draws already made from the
\* stream of `seed` (for the seeds the model follows, DOMAIN tape): the
\* p-th call after random.seed(seed) returns the recorded value when it is
\* the same call, and is free otherwise.  A stream outside DOMAIN tape, and
\* the unseeded process-wide stream, are free.
Replayed(tp, r, kind, allowed) ==
  /\ r.seeded
  /\ r.seed \in DOMAIN tp
  /\ r.pos + 1 <= Len(tp[r.seed])
  /\ tp[r.seed][r.pos + 1].kind = kind
  /\ tp[r.seed][r.pos + 1].val \in allowed

\* the values the next call of `kind` may return
DrawSet(tp, r, kind, allowed) ==
  IF Replayed(tp, r, kind, allowed) THEN {tp[r.seed][r.pos + 1].val} ELSE allowed

\* the tape after that call returned v
Record(tp, r, kind, allowed, v) ==
  IF r.seeded /\ r.seed \in DOMAIN tp /\ ~Replayed(tp, r, kind, allowed)
  THEN [tp EXCEPT ![r.seed] =
          SubSeq(@, 1, Min2(r.pos, Len(@))) \o <<[kind |-> kind, val |-> v]>>]
  ELSE tp

\* the generator after one call
Advance(r) == [r EXCEPT !.pos = @ + 1]

\* the process-wide generator before any seeding
AmbientRng == [seeded |-> FALSE, seed |-> << >>, pos |-> 0]

\* random.seed(hash(tuple(chosen_marks)) & 0xFFFFFFFF)
SeededRng(chosen_marks) == [seeded |-> TRUE, seed |-> chosen_marks, pos |-> 0]

(* ------------------------------------------------------------------ *)
(* State                                                                *)
(* ------------------------------------------------------------------ *)

VARIABLES
  layout,         \* the caller's layout: cells_across and the grid rectangle
  marks,          \* the caller's persisted marks (run_interactive.main): None or a list
  grid,           \* renderer.grid, the HexGrid
  router,         \* renderer.router, the TrailRouter: samples_log, used_edges, _grid_ref
  last_diamonds,  \* renderer.last_diamonds
  last_marks,     \* renderer.last_marks
  rng,            \* the process-wide random generator
  tape,           \* the draws made so far from the seeded streams the model follows
  pc,             \* where the running call stands: idle, connector, astar, routed
  passes,         \* calls completed so far
  error,          \* the exception the last call ended in, or "none"
  frame,          \* the locals of the running draw_trails
  search,         \* the locals of the running _astar
  draw_cmds,      \* the draw commands the router emitted on the current image
  call,           \* the last call the caller made: its operation and arguments
  probe           \* a helper called on its own: its name, arguments and result

vars == <<layout, marks, grid, router, last_diamonds, last_marks, rng, tape,
          pc, passes, error, frame, search, draw_cmds, call, probe>>

(* ------------------------------------------------------------------ *)
(* Bounds and inputs                                                    *)
(* ------------------------------------------------------------------ *)

\* calls of render / draw_trails in one behaviour
MaxPasses == 1

\* frames rendered when the seeded stream is followed across frames
ReplayPasses == 2

\* random placement draws at most this many diamonds
MaxPlaced == 6

\* the labels random placement draws from, of randint(1, 5)
PlacedLabels == {1, 5}

\* renderer.render passes max_trails=4
max_trails == 4

\* the grid rectangle of the default 648 x 480 layout under a two-line header
DefaultRect == [left |-> 28, top |-> 100, right |-> 384, bottom |-> 460]

\* a rectangle of no area
EmptyRect == [left |-> 28, top |-> 100, right |-> 28, bottom |-> 460]

\* a rectangle 12 px wide: R = 0
ThinRect == [left |-> 28, top |-> 100, right |-> 40, bottom |-> 460]

\* the diamond_centers lists a direct caller of draw_trails passes
DirectCalls ==
  { [diamond_centers |-> << >>, max_trails |-> 4],
    [diamond_centers |-> << <<127, 234>> >>, max_trails |-> 4],
    [diamond_centers |-> << <<127, 234>>, <<284, 325>> >>, max_trails |-> 4],
    [diamond_centers |-> << <<284, 325>>, <<127, 325>>, <<206, 189>> >>, max_trails |-> 1],
    [diamond_centers |-> << <<127, 234>>, <<284, 325>>, <<206, 189>>, <<206, 370>> >>,
      max_trails |-> 2] }

\* the rectangles draw_grid is called with when the grid is used on its own:
\* 360 px high, from no width to wider than high
GridWidths == {0, 12, 13, 14, 40, 80, 120, 160, 200, 240, 280, 320, 356, 400}

GridRects == {[left |-> 28, top |-> 100, right |-> 28 + w, bottom |-> 460] : w \in GridWidths}

\* the cells_across values a grid is constructed with
GridSizes == 1..8

\* no helper called on its own
NoProbe == [op |-> "none", args |-> << >>, out |-> << >>, done |-> FALSE]

\* longest polyline handed to a helper, and most smoothing iterations
MaxPolyLen == 4

MaxIters == 3

\* the points polylines are made of, in sub-pixels
PolyPoints == {<<0, 0>>, <<160, 0>>, <<160, 96>>, <<-64, 240>>}

PolyInputs == UNION {[1..n -> PolyPoints] : n \in 0..MaxPolyLen}

\* no call made yet
NoCall == [op |-> "none", diamonds |-> 0, max_trails |-> 0]

NoMarks == [given |-> FALSE, list |-> << >>]

Given(list) == [given |-> TRUE, list |-> list]

\* a test for marks that takes an empty list for marks too
Truthy_given(m) == m.given

\* `if marks:` in render
Truthy(m) == m.given /\ m.list # << >>

IdleFrame ==
  [via |-> "none", diamond_centers |-> << >>, diamond_radius |-> 0,
   max_trails |-> 0, diamonds_ax |-> << >>, pts |-> << >>, segs |-> 0, i |-> 0,
   existing_samples |-> << >>, style |-> "none", saved_rng |-> AmbientRng]

IdleSearch ==
  [start |-> <<0, 0>>, goal |-> <<0, 0>>, blocked |-> {}, openq |-> {},
   came |-> << >>, g |-> << >>, path |-> << >>]

\* TrailRouter.__init__
NewRouter == [samples_log |-> << >>, used_edges |-> {}, has_grid_ref |-> FALSE]

\* all orders random.shuffle can leave n items in, as index permutations
RECURSIVE PermsOf(_)
PermsOf(S) ==
  IF S = {} THEN {<< >>} ELSE UNION {{<<x>> \o q : q \in PermsOf(S \ {x})} : x \in S}

Perms(n) == PermsOf(1..n)

\* the labels random.randint(1, 5) gives the k picks: the model follows all
\* lowest, all highest, and the two alternating
LabelRuns(k) ==
  {[j \in 1..k |-> lab] : lab \in PlacedLabels}
    \cup {[j \in 1..k |-> IF j % 2 = 1 THEN 1 ELSE 5]}

\* random.sample(range(n), k) with a label for each pick: (index, label)
\* pairs on k different indices.  Of all such samples the model follows the
\* runs of k consecutive indices (modulo n) from every start
Picks(n, k) ==
  {[j \in 1..k |-> <<(o + j - 1) % n, labs[j]>>] : o \in 0..(n - 1), labs \in LabelRuns(k)}

\* a placement that draws its cells with replacement: the same cell k times
PlacementsWithRepeats(n) ==
  UNION {{[j \in 1..k |-> <<o, labs[j]>>] : o \in 0..(n - 1), labs \in LabelRuns(k)} :
           k \in 3..Min2(MaxPlaced, Min2(6, n))}

Placements(n) == UNION {Picks(n, k) : k \in 3..Min2(MaxPlaced, Min2(6, n))}

(* ------------------------------------------------------------------ *)
(* Operations                                                           *)
(* ------------------------------------------------------------------ *)

\* a render without its finally clause: the seeded generator stays in place
restored_never(via, saved, r) == r

\* the generator a call leaves behind: render's `finally` puts back the state
\* it saved before seeding, a direct call leaves the generator as it is
restored(via, saved, r) == IF via = "render" THEN saved ELSE r

\* the end of a call: back in the caller with the generator r and outcome err
Finish(r, err, m) ==
  /\ pc' = "idle"
  /\ frame' = IdleFrame
  /\ search' = IdleSearch
  /\ passes' = passes + 1
  /\ error' = err
  /\ rng' = r
  /\ marks' = m

\* a draw_trails without its first early return
too_few_never(dcs) == FALSE

\* `if len(diamond_centers) < 2: return`
too_few(dcs) == Len(dcs) < 2

\* a draw_trails that never raises for a missing _grid_ref
lacks_grid_never(r) == FALSE

\* `if not hasattr(self, "_grid_ref"): raise RuntimeError`
lacks_grid(r) == ~r.has_grid_ref

\* an upper bound that counts diamonds instead of the gaps between them
upper_of_diamonds(mt, n) == Min2(mt, n)

\* upper = min(max_trails, len(pts) - 1)
upper_of(mt, n) == Min2(mt, n - 1)

\* draw_trails up to the start of its connector loop (lines 222-244), entered
\* with the generator r; `saved` is render's _state, restored in its finally
draw_trails_enter(via, dcs, radius, mt, r, saved, m) ==
  /\ call' = [op |-> IF via = "render" THEN "render" ELSE "draw_trails",
              diamonds |-> Len(dcs), max_trails |-> mt]
  /\ IF too_few(dcs)
     THEN /\ tape' = tape
          /\ Finish(restored(via, saved, r), "none", m)
     ELSE IF lacks_grid(router')
     THEN /\ tape' = tape
          /\ Finish(restored(via, saved, r), "RuntimeError", m)
     ELSE
       LET dax   == [k \in 1..Len(dcs) |-> closest_node(grid', dcs[k])]
           n     == Len(dax)
           upper == upper_of(mt, n)
           fixed == IF upper >= 2 THEN 2 ELSE upper
       IN  \E perm \in DrawSet(tape, r, "shuffle", Perms(n)) :
             LET t1 == Record(tape, r, "shuffle", Perms(n), perm)
                 r1 == Advance(r)
             IN  \E sg \in (IF upper > 2 THEN DrawSet(t1, r1, "segs", 2..upper)
                                         ELSE {fixed}) :
                   /\ tape' = IF upper > 2 THEN Record(t1, r1, "segs", 2..upper, sg) ELSE t1
                   /\ rng' = IF upper > 2 THEN Advance(r1) ELSE r1
                   /\ frame' = [via |-> via, diamond_centers |-> dcs,
                                diamond_radius |-> radius, max_trails |-> mt,
                                diamonds_ax |-> dax,
                                pts |-> [k \in 1..n |-> dax[perm[k]]],
                                segs |-> sg, i |-> 0, existing_samples |-> << >>,
                                style |-> "none", saved_rng |-> saved]
                   /\ pc' = "connector"
                   /\ search' = IdleSearch
                   /\ passes' = passes
                   /\ error' = "none"
                   /\ marks' = marks

\* render from the diamonds on: remember them, seed, route (lines 193-211)
render_trails(g2, chosen, saved) ==
  LET cs  == centers(g2)
      dcs == [k \in 1..Len(chosen) |-> cs[chosen[k][1] + 1]]
  IN  /\ grid' = g2
      /\ last_marks' = chosen
      /\ last_diamonds' = [k \in 1..Len(chosen) |-> <<dcs[k][1], dcs[k][2], chosen[k][2]>>]
      /\ router' = [router EXCEPT !.has_grid_ref = TRUE]
      /\ draw_trails_enter("render", dcs, g2.diamond_r, max_trails, SeededRng(chosen), saved,
                           IF ~marks.given /\ chosen # << >> THEN Given(chosen) ELSE marks)

\* a bounds test that starts one cell late: index 0 is skipped
kept_positive(list, n) == SelectSeq(list, LAMBDA mk : 0 < mk[1] /\ mk[1] < n)

\* the supplied (index, label) pairs render draws: `if 0 <= idx < len(centers)`
kept(list, n) == SelectSeq(list, LAMBDA mk : 0 <= mk[1] /\ mk[1] < n)

\* HexScreenRenderer.render(marks=marks) as run_interactive.main calls it each frame
Render ==
  /\ pc = "idle"
  /\ passes < layout.frames
  /\ draw_cmds' = << >>
  /\ layout' = layout
  /\ probe' = probe
  /\ IF DrawGridRaises(grid.cells_across, layout.rect)
     THEN /\ grid' = [grid EXCEPT !.big_hex = BigHex(layout.rect), !.cell_size = 0]
          /\ UNCHANGED <<router, last_diamonds, last_marks, tape>>
          /\ call' = [op |-> "render", diamonds |-> 0, max_trails |-> 0]
          /\ Finish(rng, "ZeroDivisionError", marks)
     ELSE
       LET g1 == draw_grid(grid, layout.rect)
           n  == Len(g1.nodes)
           g2 == [g1 EXCEPT !.diamond_r = DiamondRadius(g1)]
       IN  IF Truthy(marks)
           THEN LET chosen == kept(marks.list, n)
                IN  render_trails(IF chosen = << >> THEN g1 ELSE g2, chosen, rng)
           ELSE IF Min2(6, n) < 3
           THEN /\ grid' = g1
                /\ UNCHANGED <<router, last_diamonds, last_marks, tape>>
                /\ call' = [op |-> "render", diamonds |-> 0, max_trails |-> 0]
                /\ Finish(rng, "ValueError", marks)
           ELSE \E chosen \in Placements(n) :
                  render_trails(g2, chosen, [rng EXCEPT !.pos = @ + 2 + Len(chosen)])

\* TrailRouter.draw_trails called on the router directly
DrawTrailsWith(dcs, mt) ==
  /\ pc = "idle"
  /\ passes < layout.frames
  /\ UNCHANGED <<layout, grid, router, last_diamonds, last_marks, draw_cmds, probe>>
  /\ draw_trails_enter("direct", dcs, grid.diamond_r, mt, rng, rng, marks)

DrawTrails == \E c \in DirectCalls : DrawTrailsWith(c.diamond_centers, c.max_trails)

\* the head of one connector: roll the style, start _astar (lines 246-253, 63-65)
ConnectorStart ==
  /\ pc = "connector"
  /\ frame.i < frame.segs
  /\ LET a == frame.pts[frame.i + 1]
         b == frame.pts[frame.i + 2]
     IN  \E roll \in DrawSet(tape, rng, "style", 1..8) :
           /\ tape' = Record(tape, rng, "style", 1..8, roll)
           /\ rng' = Advance(rng)
           /\ frame' = [frame EXCEPT !.style = style_of(roll)]
           /\ search' = [start |-> a, goal |-> b,
                         blocked |-> SeqToSet(frame.diamonds_ax) \ {a, b},
                         openq |-> {<<0, a>>}, came |-> << >>, g |-> (a :> 0),
                         path |-> << >>]
           /\ pc' = "astar"
  /\ UNCHANGED <<layout, marks, grid, router, last_diamonds, last_marks,
                 passes, error, draw_cmds, call, probe>>

\* one turn of the while-loop of _astar (lines 67-90): the queue is empty and
\* [] is returned, or the goal is popped and the route rebuilt, or the popped
\* node's neighbours are evaluated, each with its own jitter
AstarStep ==
  /\ pc = "astar"
  /\ IF search.openq = {}
     THEN /\ search' = [search EXCEPT !.path = << >>]
          /\ pc' = "routed"
          /\ UNCHANGED <<rng, tape>>
     ELSE
       LET e   == heap_min(search.openq)
           cur == e[2]
           nb  == open_neighbors(grid, search.blocked, cur)
           js  == [1..Len(nb) -> Jitters]
       IN  IF cur = search.goal
           THEN /\ search' = [search EXCEPT
                                !.openq = @ \ {e},
                                !.path = Reverse(walk_back(search.came, cur,
                                                           Cardinality(DOMAIN search.came)))]
                /\ pc' = "routed"
                /\ UNCHANGED <<rng, tape>>
           ELSE IF nb = << >>
           THEN /\ search' = [search EXCEPT !.openq = @ \ {e}]
                /\ pc' = "astar"
                /\ UNCHANGED <<rng, tape>>
           ELSE \E jit \in DrawSet(tape, rng, "jitter", js) :
                  /\ search' = relax(search, router.used_edges, cur, nb, jit)
                  /\ tape' = Record(tape, rng, "jitter", js, jit)
                  /\ rng' = Advance(rng)
                  /\ pc' = "astar"
  /\ UNCHANGED <<layout, marks, grid, router, last_diamonds, last_marks,
                 passes, error, frame, draw_cmds, call, probe>>

\* a connector loop that never skips a route
no_route_never(path_ax) == FALSE

\* `if not path_ax or len(path_ax) < 2: continue`
no_route(path_ax) == Len(path_ax) < 2

\* the (x, y, r) circles of all diamonds: avoid_circles
avoid_circles(dcs, radius) ==
  [k \in 1..Len(dcs) |-> <<dcs[k][1], dcs[k][2], radius + 2>>]

\* a record of the first edge of the route only
route_edges_first(path_ax) == {edge_key(path_ax[1], path_ax[2])}

\* the edges of a route, as _edge_key pairs
route_edges(path_ax) ==
  {edge_key(path_ax[k], path_ax[k + 1]) : k \in 1..(Len(path_ax) - 1)}

\* the rest of one connector after _astar returned (lines 254-287): skip an
\* empty or one-cell route, build the polyline, drop it if it fails the
\* spacing guard, else stroke it and record it
ConnectorFinish ==
  /\ pc = "routed"
  /\ frame.via # "none"
  /\ LET path_ax == search.path
         poly    == trail_poly(grid, path_ax, frame.diamond_radius)
     IN  IF no_route(path_ax)
         THEN /\ frame' = [frame EXCEPT !.i = @ + 1]
              /\ pc' = "connector"
              /\ UNCHANGED <<router, draw_cmds, passes, error, rng, marks>>
         ELSE IF Len(path_ax) < 2
         THEN \* poly[1] / poly[-2] of a polyline of fewer than 2 points
              /\ frame' = IdleFrame
              /\ pc' = "idle"
              /\ passes' = passes + 1
              /\ error' = "IndexError"
              /\ rng' = restored(frame.via, frame.saved_rng, rng)
              /\ UNCHANGED <<router, draw_cmds, marks>>
         ELSE IF ~spacing_ok(poly, frame.existing_samples)
         THEN /\ frame' = [frame EXCEPT !.i = @ + 1]
              /\ pc' = "connector"
              /\ UNCHANGED <<router, draw_cmds, passes, error, rng, marks>>
         ELSE /\ pc' = "connector"
              /\ UNCHANGED <<passes, error, rng, marks>>
              /\ draw_cmds' = draw_cmds \o
                    stroke(poly, frame.style,
                           avoid_circles(frame.diamond_centers, frame.diamond_radius))
              /\ frame' = [frame EXCEPT !.i = @ + 1,
                                        !.existing_samples = @ \o poly]
              /\ router' = [router EXCEPT
                              !.used_edges = @ \cup route_edges(path_ax),
                              !.samples_log = Append(@, [style |-> frame.style,
                                                         poly |-> poly])]
  /\ search' = IdleSearch
  /\ UNCHANGED <<layout, grid, last_diamonds, last_marks, tape, call, probe>>

\* the connector loop is over: draw_trails returns; render restores the
\* generator (finally) and the caller keeps the marks of a first random pass
PassEnd ==
  /\ pc = "connector"
  /\ frame.i >= frame.segs
  /\ Finish(restored(frame.via, frame.saved_rng, rng), "none",
            IF frame.via = "render" /\ ~marks.given /\ last_marks # << >>
            THEN Given(last_marks) ELSE marks)
  /\ UNCHANGED <<layout, grid, router, last_diamonds, last_marks, tape, draw_cmds,
                 call, probe>>

(* ------------------------------------------------------------------ *)
(* Specifications                                                       *)
(* ------------------------------------------------------------------ *)

\* the renderer and its caller after construction
Start(sc, followed) ==
  /\ layout = [cells_across |-> sc.cells_across, rect |-> sc.rect, frames |-> sc.frames]
  /\ marks = sc.marks
  /\ grid = HexGrid(sc.cells_across)
  /\ router = NewRouter
  /\ last_diamonds = << >>
  /\ last_marks = << >>
  /\ rng = AmbientRng
  /\ tape = [s \in followed |-> << >>]
  /\ pc = "idle"
  /\ passes = 0
  /\ error = "none"
  /\ frame = IdleFrame
  /\ search = IdleSearch
  /\ draw_cmds = << >>
  /\ call = NoCall
  /\ probe = NoProbe

\* marks on the 7-cell flower (cells_across 4).  Cell indices there:
\* 0 (-1,0)  1 (-1,1)  2 (0,-1)  3 (0,0)  4 (0,1)  5 (1,-1)  6 (1,0)
MarksOpposite == << <<0, 1>>, <<6, 2>> >>

MarksThrough == << <<0, 1>>, <<6, 2>>, <<3, 3>> >>

\* three diamonds on alternate outer cells, pairwise two hops apart
MarksTriangle == << <<6, 1>>, <<1, 2>>, <<2, 3>> >>

\* (1,0) walled in by diamonds on its three neighbours, and (-1,0) beyond
MarksWalled == << <<6, 1>>, <<3, 2>>, <<5, 3>>, <<4, 4>>, <<0, 5>> >>

\* one mark on the lattice and one past its end
MarksOne == << <<0, 1>>, <<5, 2>> >>

\* the same cell marked twice
MarksTwice == << <<0, 1>>, <<0, 2>> >>

\* two adjacent outer cells
MarksAdjacent == << <<0, 1>>, <<1, 2>> >>

Scenario(c, r, f, m) == [cells_across |-> c, rect |-> r, frames |-> f, marks |-> m]

Scenarios ==
  { Scenario(4, DefaultRect, MaxPasses, Given(MarksOpposite)),
    Scenario(4, DefaultRect, MaxPasses, Given(MarksThrough)),
    Scenario(4, DefaultRect, MaxPasses, Given(MarksTriangle)),
    Scenario(1, DefaultRect, MaxPasses, Given(MarksOne)),
    Scenario(1, EmptyRect, MaxPasses, Given(MarksOne)),
    Scenario(6, EmptyRect, MaxPasses, Given(MarksOne)),
    Scenario(6, ThinRect, MaxPasses, Given(MarksOne)) }

Init == \E sc \in Scenarios : Start(sc, {})

Next == Render \/ DrawTrails \/ ConnectorStart \/ AstarStep \/ ConnectorFinish \/ PassEnd

Spec == Init /\ [][Next]_vars

\* a pass over diamonds that wall one of them in
InitBlocked == Start(Scenario(4, DefaultRect, MaxPasses, Given(MarksWalled)), {})

SpecBlocked == InitBlocked /\ [][Next]_vars

\* the caller's frame loop: the same marks rendered again through the same
\* renderer, the seeded stream followed from one frame to the next
InitReplay ==
  Start(Scenario(4, DefaultRect, ReplayPasses, Given(MarksAdjacent)), {MarksAdjacent})

NextReplay == Render \/ ConnectorStart \/ AstarStep \/ ConnectorFinish \/ PassEnd

SpecReplay == InitReplay /\ [][NextReplay]_vars

\* the router used on its own: its caller has drawn the grid and may have set
\* _grid_ref (as renderer.py does before every call) or have forgotten to
StartWired(wired) ==
  /\ layout = [cells_across |-> 4, rect |-> DefaultRect, frames |-> MaxPasses]
  /\ marks = Given(MarksOpposite)
  /\ grid = LET g1 == draw_grid(HexGrid(4), DefaultRect)
            IN  [g1 EXCEPT !.diamond_r = DiamondRadius(g1)]
  /\ router = [NewRouter EXCEPT !.has_grid_ref = wired]
  /\ last_diamonds = << >>
  /\ last_marks = << >>
  /\ rng = AmbientRng
  /\ tape = << >>
  /\ pc = "idle"
  /\ passes = 0
  /\ error = "none"
  /\ frame = IdleFrame
  /\ search = IdleSearch
  /\ draw_cmds = << >>
  /\ call = NoCall
  /\ probe = NoProbe

InitChain == \E wired \in BOOLEAN : StartWired(wired)

SpecChain == InitChain /\ [][Next]_vars

\* the diamonds stage of render on the flower lattice: random placement when
\* the caller has no marks, else the caller's marks
InitPlace ==
  \E m \in {NoMarks, Given(MarksTwice), Given(MarksThrough)} :
    Start(Scenario(4, DefaultRect, MaxPasses, m), {})

NextPlace == Render

SpecPlace == InitPlace /\ [][NextPlace]_vars

\* a helper of the router about to be called on its own with arguments args
StartProbe(op, args) ==
  /\ layout = [cells_across |-> 4, rect |-> DefaultRect, frames |-> 0]
  /\ marks = NoMarks
  /\ grid = HexGrid(4)
  /\ router = NewRouter
  /\ last_diamonds = << >>
  /\ last_marks = << >>
  /\ rng = AmbientRng
  /\ tape = << >>
  /\ pc = "idle"
  /\ passes = 0
  /\ error = "none"
  /\ frame = IdleFrame
  /\ search = IdleSearch
  /\ draw_cmds = << >>
  /\ call = NoCall
  /\ probe = [op |-> op, args |-> args, out |-> << >>, done |-> FALSE]

\* TrailRouter._chaikin(pts, iters) called on its own
Chaikin ==
  /\ probe.op = "chaikin"
  /\ ~probe.done
  /\ probe' = [probe EXCEPT !.out = chaikin(probe.args[1], probe.args[2]), !.done = TRUE]
  /\ UNCHANGED <<layout, marks, grid, router, last_diamonds, last_marks, rng, tape,
                 pc, passes, error, frame, search, draw_cmds, call>>

InitSmooth == \E pts \in PolyInputs, iters \in 0..MaxIters : StartProbe("chaikin", <<pts, iters>>)

NextSmooth == Chaikin

SpecSmooth == InitSmooth /\ [][NextSmooth]_vars

\* HexGrid.draw_grid called on the grid directly
DrawGrid ==
  \E rect \in GridRects :
    /\ pc = "idle"
    /\ layout' = [layout EXCEPT !.rect = rect]
    /\ call' = [op |-> "draw_grid", diamonds |-> 0, max_trails |-> 0]
    /\ IF DrawGridRaises(grid.cells_across, rect)
       THEN /\ grid' = [grid EXCEPT !.big_hex = BigHex(rect), !.cell_size = 0]
            /\ error' = "ZeroDivisionError"
       ELSE /\ grid' = draw_grid(grid, rect)
            /\ error' = "none"
    /\ UNCHANGED <<marks, router, last_diamonds, last_marks, rng, tape, pc, passes,
                   frame, search, draw_cmds, probe>>

\* a HexGrid on its own, constructed and then drawn any number of times
InitGrid ==
  \E c \in GridSizes : Start(Scenario(c, DefaultRect, 0, NoMarks), {})

NextGrid == DrawGrid

SpecGrid == InitGrid /\ [][NextGrid]_vars

\* _astar on its own: a lattice, the diamonds' cells (the first two are the
\* connector's start and goal, the others are blocked) and the used edges
StartAstar(sc) ==
  /\ layout = [cells_across |-> sc.cells_across, rect |-> DefaultRect, frames |-> 0]
  /\ marks = NoMarks
  /\ grid = draw_grid(HexGrid(sc.cells_across), DefaultRect)
  /\ router = [NewRouter EXCEPT !.used_edges = sc.used_edges, !.has_grid_ref = TRUE]
  /\ last_diamonds = << >>
  /\ last_marks = << >>
  /\ rng = AmbientRng
  /\ tape = << >>
  /\ pc = "astar"
  /\ passes = 0
  /\ error = "none"
  /\ frame = IdleFrame
  /\ search = [start |-> sc.diamonds_ax[1], goal |-> sc.diamonds_ax[2],
               blocked |-> SeqToSet(sc.diamonds_ax) \ {sc.diamonds_ax[1], sc.diamonds_ax[2]},
               openq |-> {<<0, sc.diamonds_ax[1]>>}, came |-> << >>,
               g |-> (sc.diamonds_ax[1] :> 0), path |-> << >>]
  /\ draw_cmds = << >>
  /\ call = NoCall
  /\ probe = NoProbe

\* on the 19-cell lattice of cells_across 7: from (-1,-1) to (1,1) past seven
\* other diamonds, 5 hops one way round and 6 the other
LongWayRound ==
  << <<-1, -1>>, <<1, 1>>, <<0, -1>>, <<0, 1>>, <<0, 0>>, <<-2, 1>>, <<1, -1>>,
     <<2, 0>>, <<-2, 0>> >>

\* on the same lattice: 4 hops from (-2,0) to the corner (2,-2), a diamond
\* on the middle cell of the way
FourHops == << <<-2, 0>>, <<2, -2>>, <<0, -1>> >>

AstarScenarios ==
  { [cells_across |-> 7, diamonds_ax |-> LongWayRound, used_edges |-> {}],
    [cells_across |-> 7, diamonds_ax |-> FourHops, used_edges |-> {}],
    [cells_across |-> 4, diamonds_ax |-> << <<-1, 0>>, <<1, 0>> >>, used_edges |-> {}],
    [cells_across |-> 4, diamonds_ax |-> << <<-1, 0>>, <<1, 0>>, <<0, 0>> >>,
      used_edges |-> {}],
    [cells_across |-> 4,
      diamonds_ax |-> << <<-1, 0>>, <<1, 0>>, <<0, 0>>, <<1, -1>>, <<0, 1>> >>,
      used_edges |-> {}] }

InitAstar == \E sc \in AstarScenarios : StartAstar(sc)

NextAstar == AstarStep

SpecAstar == InitAstar /\ [][NextAstar]_vars

\* _astar on the 7-cell flower from two starts to every cell (the start
\* itself included), with no diamond in the way, one in the centre, a wall
\* down the middle or a ring round (1, 0), over fresh and over used edges
FlowerCells ==
  {<<-1, 0>>, <<-1, 1>>, <<0, -1>>, <<0, 0>>, <<0, 1>>, <<1, -1>>, <<1, 0>>}

SearchBlocks ==
  { << >>,
    << <<0, 0>> >>,
    << <<0, -1>>, <<0, 0>>, <<0, 1>> >>,
    << <<0, 0>>, <<1, -1>>, <<0, 1>> >> }

SearchUsed ==
  { {},
    {edge_key(<<-1, 0>>, <<0, 0>>), edge_key(<<0, 0>>, <<1, 0>>),
     edge_key(<<-1, 0>>, <<0, -1>>)} }

SearchScenarios ==
  { [cells_across |-> 4, diamonds_ax |-> <<s, g>> \o b, used_edges |-> u] :
      s \in {<<-1, 0>>, <<0, 0>>}, g \in FlowerCells, b \in SearchBlocks, u \in SearchUsed }

InitSearch == \E sc \in SearchScenarios : StartAstar(sc)

\* the while-loop of _astar keeps running until it returns
SpecSearch == InitSearch /\ [][NextAstar]_vars /\ WF_vars(AstarStep)

\* a grid rectangle on which the cells of the 7-cell lattice are 109 px apart
NearRect == [left |-> 0, top |-> 0, right |-> 430, bottom |-> 430]

\* passes over three diamonds on the usual and on the larger rectangle
InitWide ==
  \E r \in {DefaultRect, NearRect}, m \in {MarksThrough, MarksTriangle} :
    Start(Scenario(4, r, MaxPasses, Given(m)), {})

SpecWide == InitWide /\ [][NextReplay]_vars

\* _chaikin called on its own and at work in the passes of the renderer
InitCut == Init \/ InitSmooth

NextCut == Next \/ Chaikin

SpecCut == InitCut /\ [][NextCut]_vars

\* renders without marks, None or an empty list, on the small lattices of
\* cells_across 1..3 over rectangles from no width to wider than high
InitFew ==
  \E c \in 1..3, r \in GridRects, m \in {NoMarks, Given(<< >>)} :
    Start(Scenario(c, r, MaxPasses, m), {})

NextFew == Render

SpecFew == InitFew /\ [][NextFew]_vars

\* cell indices a caller may hand in: below the list, its first cell, the
\* last cell of the 7-cell lattice, and one past it
SuppliedIndices == {0 - 1, 0, 6, 7}

SuppliedPairs == {<<i, lab>> : i \in SuppliedIndices, lab \in {1, 2}}

\* two lists of four pairs with a skipped pair between kept ones
MarksMixed == << <<6, 1>>, <<0 - 1, 2>>, <<0, 3>>, <<7, 1>> >>

MarksMixedBack == << <<7, 2>>, <<0, 1>>, <<0 - 1, 3>>, <<6, 2>> >>

SuppliedLists ==
  {<<p>> : p \in SuppliedPairs}
    \cup {<<p, q>> : p \in SuppliedPairs, q \in SuppliedPairs}
    \cup {MarksMixed, MarksMixedBack}

\* renders with supplied marks on the 7-cell lattice, the 1-cell lattice and
\* the empty lattice
InitGiven ==
  \E sc \in {[c |-> 4, r |-> DefaultRect], [c |-> 1, r |-> DefaultRect], [c |-> 1, r |-> EmptyRect]},
     list \in SuppliedLists :
    Start(Scenario(sc.c, sc.r, MaxPasses, Given(list)), {})

SpecGiven == InitGiven /\ [][NextReplay]_vars

(* ------------------------------------------------------------------ *)
(* Properties                                                           *)
(* ------------------------------------------------------------------ *)

\* a call of draw_trails is running
InPass == pc \in {"connector", "astar", "routed"}

\* _astar has just returned search.path
Routed == pc = "routed"

\* the cells of a route
PathCells(path) == SeqToSet(path)

\* a and b are lattice neighbours, each in the other's neighbors list
Adjacent(a, b) ==
  /\ a \in SeqToSet(neighbors(grid, b))
  /\ b \in SeqToSet(neighbors(grid, a))

\* breadth-first search over the lattice cells outside `blocked`: the hops
\* from the cells of `frontier` (already d hops from the start) to goal, or
\* -1 when goal is cut off
RECURSIVE HopsFrom(_, _, _, _, _)
HopsFrom(frontier, seen, goal, blocked, d) ==
  IF goal \in frontier THEN d
  ELSE IF frontier = {} THEN -1
  ELSE LET nxt == UNION {{n \in SeqToSet(neighbors(grid, c)) : n \notin blocked} :
                           c \in frontier} \ seen
       IN  HopsFrom(nxt, seen \cup nxt, goal, blocked, d + 1)

\* the hops of a shortest obstacle-avoiding path of the running search
HopDist == HopsFrom({search.start}, {search.start}, search.goal, search.blocked, 0)

\* the trails accepted so far in the running pass: the tail of samples_log
\* whose polylines make up existing_samples
RECURSIVE PassTrailsFrom(_, _)
PassTrailsFrom(log, need) ==
  IF need <= 0 \/ log = << >> THEN << >>
  ELSE Append(PassTrailsFrom(SubSeq(log, 1, Len(log) - 1),
                             need - Len(log[Len(log)].poly)),
              log[Len(log)])

PassTrails == PassTrailsFrom(router.samples_log, Len(frame.existing_samples))

\* C1: every non-empty route _astar returns starts at start, ends at goal,
\* steps only between mutually adjacent cells and contains no blocked cell,
\* the blocked cells being all diamond cells but the connector's two ends
RouteValid ==
  (Routed /\ search.path # << >>) =>
    LET path == search.path
    IN  /\ path[1] = search.start
        /\ path[Len(path)] = search.goal
        /\ \A k \in 1..(Len(path) - 1) : Adjacent(path[k], path[k + 1])
        /\ PathCells(path) \cap search.blocked = {}
        /\ search.blocked = SeqToSet(frame.diamonds_ax) \ {search.start, search.goal}

\* a route of three hops or more returned while a diamond cell was blocked
RouteValidWitness ==
  /\ Routed
  /\ Len(search.path) >= 4
  /\ search.blocked # {}

\* C2: at every point of a pass, any two distinct accepted trails keep all
\* their polyline points at least NO_OVERLAP_DIST apart
NoOverlap ==
  InPass =>
    \A a, b \in 1..Len(PassTrails) :
      a < b =>
        \A k \in 1..Len(PassTrails[a].poly) : \A m \in 1..Len(PassTrails[b].poly) :
          dist2(PassTrails[a].poly[k], PassTrails[b].poly[m])
            >= (NO_OVERLAP_DIST * SUB) * (NO_OVERLAP_DIST * SUB)

\* a pass that has accepted two trails
NoOverlapWitness ==
  /\ InPass
  /\ Len(PassTrails) >= 2
  /\ Len(frame.existing_samples) = Len(PassTrails[1].poly) + Len(PassTrails[2].poly)

\* C3 (as stated): two passes over the same marks through the same renderer,
\* seeded alike, accept the same trails: same number, same routes, same styles
SameTrailsEachPass ==
  (pc = "idle" /\ passes = ReplayPasses /\ error = "none") =>
    LET log  == router.samples_log
        half == Len(log) \div 2
    IN  /\ Len(log) = 2 * half
        /\ SubSeq(log, 1, half) = SubSeq(log, half + 1, 2 * half)

\* the flower lattice with start and goal on opposite outer cells, nothing blocked
FlowerOpposite ==
  /\ Len(grid.nodes) = 7
  /\ search.start # <<0, 0>>
  /\ search.goal = <<-search.start[1], -search.start[2]>>
  /\ search.blocked = {}

\* C4 (as stated): with no penalised edge, the returned route has the fewest
\* hops of all obstacle-avoiding paths, whatever jitters are drawn
ShortestAlways ==
  (Routed /\ search.path # << >> /\ router.used_edges = {}) =>
    Len(search.path) - 1 = HopDist

\* C4: with no penalised edge, the returned route has fewer than 1.25 times
\* the hops of a shortest obstacle-avoiding path, so exactly as many when
\* that path has at most 4 hops; on the flower with the diamonds on opposite
\* outer cells it is the direct route through the centre
ShortestUpToFourHops ==
  (Routed /\ search.path # << >> /\ router.used_edges = {}) =>
    /\ 4 * (Len(search.path) - 1) < 5 * HopDist
    /\ HopDist <= 4 => Len(search.path) - 1 = HopDist
    /\ FlowerOpposite => search.path = <<search.start, <<0, 0>>, search.goal>>

\* a 4-hop route returned past blocked cells
ShortestWitness ==
  /\ Routed
  /\ router.used_edges = {}
  /\ search.blocked # {}
  /\ HopDist = 4
  /\ Len(search.path) = 5

\* C5: _astar returns an empty route only when the blocked cells cut the goal
\* off; when a path exists the route is non-empty and touches no blocked cell,
\* so with a diamond on the straight line between the ends it goes round it
CompleteSearch ==
  Routed =>
    /\ search.path = << >> => HopDist = -1
    /\ HopDist >= 0 => /\ search.path # << >>
                       /\ PathCells(search.path) \cap search.blocked = {}

\* a route returned round the centre diamond that sits between the two ends
CompleteSearchWitness ==
  /\ Routed
  /\ search.start = <<-1, 0>>
  /\ search.goal = <<1, 0>>
  /\ search.blocked = {<<0, 0>>}
  /\ Len(search.path) = 4
  /\ <<0, 0>> \notin PathCells(search.path)

\* connector k of the running pass (k = 1 for the first) joins two diamonds
\* that the other diamonds cut off from each other
CutOff(k) ==
  HopsFrom({frame.pts[k]}, {frame.pts[k]}, frame.pts[k + 1],
           SeqToSet(frame.diamonds_ax) \ {frame.pts[k], frame.pts[k + 1]}, 0) = -1

\* C6: a connector whose goal is unreachable raises nothing and records
\* nothing, the next connector of the chain is started after it, the pass
\* ends without an error, and every trail accepted has a route of 2 cells or
\* more from one diamond of its connector to the other
SkipsUnreachable ==
  [][ /\ (Routed /\ search.path = << >>) =>
           /\ router' = router
           /\ draw_cmds' = draw_cmds
           /\ error' = "none"
           /\ pc' = "connector"
           /\ frame' = [frame EXCEPT !.i = @ + 1]
      /\ (pc = "connector" /\ frame.i < frame.segs) =>
           /\ pc' = "astar"
           /\ search'.start = frame.pts[frame.i + 1]
           /\ search'.goal = frame.pts[frame.i + 2]
      /\ (pc = "connector" /\ frame.i >= frame.segs) =>
           /\ pc' = "idle"
           /\ error' = "none"
           /\ Len(PassTrails) <= frame.segs
      /\ (router'.samples_log # router.samples_log) =>
           /\ Len(search.path) >= 2
           /\ search.path[1] = frame.pts[frame.i + 1]
           /\ search.path[Len(search.path)] = frame.pts[frame.i + 2]
    ]_vars

\* a pass that went past a cut-off connector and accepted a trail after it
SkipsUnreachableWitness ==
  /\ pc = "connector"
  /\ error = "none"
  /\ \E k \in 1..(frame.i - 1) : CutOff(k) /\ Len(PassTrails) > k - 1

Returned == pc = "idle" /\ call.op = "draw_trails"

\* C8 (as stated): draw_trails called with fewer than 2 diamonds, or on a
\* router without _grid_ref, ends in a raised error
FailsLoudly ==
  (Returned /\ (call.diamonds < 2 \/ ~router.has_grid_ref)) => error # "none"

\* C8: draw_trails raises RuntimeError exactly when it is called with 2 or
\* more diamonds on a router without _grid_ref; with fewer than 2 diamonds
\* it returns without an error, _grid_ref or not
RaisesOnlyWithoutGrid ==
  Returned =>
    /\ error = "RuntimeError" <=> (call.diamonds >= 2 /\ ~router.has_grid_ref)
    /\ call.diamonds < 2 => error = "none"

\* a call with two diamonds on a router without _grid_ref, ended in RuntimeError
RaisesWitness ==
  /\ Returned
  /\ call.diamonds >= 2
  /\ ~router.has_grid_ref
  /\ error = "RuntimeError"

\* C9: draw_trails entered with fewer than 2 diamonds, directly or from
\* render, returns normally, emits no draw command and leaves samples_log
\* and used_edges as they were
NoOpBelowTwo ==
  [][ (pc = "idle" /\ call'.diamonds < 2
         /\ error' \notin {"ZeroDivisionError", "ValueError"}) =>
        /\ pc' = "idle"
        /\ error' = "none"
        /\ draw_cmds' = IF call'.op = "render" THEN << >> ELSE draw_cmds
        /\ router'.samples_log = router.samples_log
        /\ router'.used_edges = router.used_edges
    ]_vars

\* render has handed the router a single diamond and come back
NoOpWitness ==
  /\ pc = "idle"
  /\ call.op = "render"
  /\ call.diamonds = 1
  /\ router.has_grid_ref
  /\ error = "none"
  /\ draw_cmds = << >>
  /\ router.samples_log = << >>

\* the area of the layout's rectangle is not positive
NoArea ==
  (layout.rect.right - layout.rect.left) * (layout.rect.bottom - layout.rect.top) <= 0

\* render has come back
Rendered == pc = "idle" /\ call.op = "render"

Built == call.op = "draw_grid" /\ error = "none"

\* the six axial offsets of a cell
Around(c) == {<<c[1] + 1, c[2]>>, <<c[1] + 1, c[2] - 1>>, <<c[1], c[2] - 1>>,
              <<c[1] - 1, c[2]>>, <<c[1] - 1, c[2] + 1>>, <<c[1], c[2] + 1>>}

\* C11: after any lattice build adjacency is symmetric, B in neighbors(A)
\* exactly when A in neighbors(B), and neighbors(q, r) is exactly the member
\* cells among the six axial offsets of (q, r), each once
AdjacencySymmetric ==
  /\ \A a, b \in Cells(grid) :
       b \in SeqToSet(neighbors(grid, a)) <=> a \in SeqToSet(neighbors(grid, b))
  /\ \A a \in Cells(grid) :
       /\ SeqToSet(neighbors(grid, a)) = Around(a) \cap Cells(grid)
       /\ Len(neighbors(grid, a)) = Cardinality(Around(a) \cap Cells(grid))

\* a built lattice with an inner cell of six neighbours and a rim cell of fewer
AdjacencyWitness ==
  /\ Built
  /\ \E a, b \in Cells(grid) :
       /\ Len(neighbors(grid, a)) = 6
       /\ Len(neighbors(grid, b)) \in 1..5
       /\ b \in SeqToSet(neighbors(grid, a))

\* render has placed its diamonds and entered the routing of 2 or more
Placed == pc = "connector" /\ frame.via = "render" /\ frame.i = 0

\* C12 (as stated): in every rendering pass, from supplied marks or from
\* random placement, no two diamonds occupy the same lattice cell
DistinctCells ==
  Placed =>
    \A a, b \in 1..Len(frame.diamonds_ax) :
      frame.diamonds_ax[a] = frame.diamonds_ax[b] => a = b

\* the inset test of draw_grid on the pixel offsets of cell (q, r)
InInset(q, r) ==
  LET s == grid.cell_size
      h == TruncDiv(SQ3K * s, 1000)
  IN  point_in_hex(2000 * grid.big_hex[3] - TruncDiv(24 * s, 10),
                   Abs(3 * s * q), Abs(h * (2 * r + q)))

Px == 2000

\* two offsets, each below one pixel, are one pixel or more apart
Apart(u, v) == u * u + v * v >= Px * Px

\* the point at offsets (px, py) >= 0 from the centre lies 1 px or more
\* outside the flat-top hexagon of radius R (all in 1/2000 px): beyond the
\* flat edge, beyond a slanted edge, or off one of the two vertices between
OutsideByOne(R, px, py) ==
  LET a == (866 * R) \div 1000
      u == px - R \div 2
      v == py - a
      w == px - R
  IN  IF R < 0 \/ px >= R + Px \/ py >= a + Px THEN TRUE
      ELSE IF 2 * px <= R THEN FALSE
      ELSE IF v >= 0 /\ 1000 * u <= SQ3K * v THEN Apart(u, v)
      ELSE IF w >= 0 /\ 1000 * w >= SQ3K * py THEN Apart(w, py)
      ELSE SQ3K * px + 1000 * py - SQ3K * R >= 2 * Px * 1000

\* the scan window of draw_grid, as (q, r) pairs
Window ==
  LET R     == grid.big_hex[3]
      s     == grid.cell_size
      q_max == TruncDiv(2000 * R, 3 * s) + 3
      r_max == TruncDiv(1000 * 1000 * R, SQ3K * s) + 3
  IN  ((-q_max)..q_max) \X ((-r_max)..r_max)

\* the candidate cell c lies 1 px or more outside the inset hexagon
FarOut(c) ==
  LET s == grid.cell_size
      h == TruncDiv(SQ3K * s, 1000)
  IN  OutsideByOne(2000 * grid.big_hex[3] - TruncDiv(24 * s, 10),
                   Abs(3 * s * c[1]), Abs(h * (2 * c[2] + c[1])))

\* C14: every retained cell passes point_in_hex against the big hexagon
\* shrunk by 1.2 s, and no candidate whose centre lies 1 px or more outside
\* that inset hexagon is among the nodes, in node_lookup or in centers
Containment ==
  Built =>
    /\ \A k \in 1..Len(grid.nodes) :
         /\ <<grid.nodes[k].q, grid.nodes[k].r>> \in Window
         /\ InInset(grid.nodes[k].q, grid.nodes[k].r)
         /\ node_lookup(grid, <<grid.nodes[k].q, grid.nodes[k].r>>) = centers(grid)[k]
    /\ \A c \in Window : FarOut(c) => c \notin Cells(grid)

\* a built lattice with a candidate 1 px or more outside next to a retained
\* cell, and a candidate less than 1 px outside that was dropped as well
ContainmentWitness ==
  /\ Built
  /\ Len(grid.nodes) >= 7
  /\ \E c \in Window : FarOut(c) /\ Around(c) \cap Cells(grid) # {}
  /\ \E c \in Window : ~FarOut(c) /\ c \notin Cells(grid)

\* _chaikin has returned probe.out for the polyline and iteration count given
Smoothed == probe.op = "chaikin" /\ probe.done

\* C15: smoothing a polyline of 2 or more points, whatever the iteration
\* count, leaves its first and its last point where they were
EndpointsKept ==
  (Smoothed /\ Len(probe.args[1]) >= 2) =>
    /\ Len(probe.out) >= 2
    /\ probe.out[1] = probe.args[1][1]
    /\ probe.out[Len(probe.out)] = probe.args[1][Len(probe.args[1])]

\* a polyline of 3 points or more, ends apart, smoothed twice or more into
\* a longer one
EndpointsKeptWitness ==
  /\ Smoothed
  /\ Len(probe.args[1]) >= 3
  /\ probe.args[2] >= 2
  /\ probe.args[1][1] # probe.args[1][Len(probe.args[1])]
  /\ Len(probe.out) > Len(probe.args[1])

\* the style the text gives each face of the 8-sided die
StyleOfFace ==
  <<"path", "path", "path", "path", "difficult", "difficult", "dangerous", "special">>

\* the last draw made from a followed seeded stream, where there is one
LastDraw == tape[rng.seed][rng.pos]

HasLastDraw ==
  /\ rng.seeded
  /\ rng.seed \in DOMAIN tape
  /\ rng.pos >= 1
  /\ rng.pos <= Len(tape[rng.seed])

\* the die of the connector being routed has just been rolled
JustRolled == pc = "astar" /\ HasLastDraw /\ LastDraw.kind = "style"

\* C16: a connector has exactly one of the four styles, the one its single
\* roll of the 8-sided die fixes: 1-4 path, 5-6 difficult, 7 dangerous,
\* 8 special; every logged trail carries one of the four
StyleByDie ==
  /\ pc \in {"astar", "routed"} => frame.style \in Styles
  /\ \A k \in 1..Len(router.samples_log) : router.samples_log[k].style \in Styles
  /\ JustRolled => /\ LastDraw.val \in 1..8
                   /\ frame.style = StyleOfFace[LastDraw.val]

\* the die came up 8 and the connector is special
StyleByDieWitness ==
  /\ JustRolled
  /\ LastDraw.val = 8
  /\ frame.style = "special"

\* the trail accepted last
LastTrail == router.samples_log[Len(router.samples_log)]

\* a special trail of this pass has been stroked and is the last one logged
SpecialStroked ==
  /\ pc = "connector"
  /\ Len(PassTrails) >= 1
  /\ LastTrail.style = "special"

\* the clearance circles of the pass: radius diamond_radius + 2 around each diamond
Circles == avoid_circles(frame.diamond_centers, frame.diamond_radius)

\* a dash that has to be left out: its midpoint is inside a clearance circle
\* or within 10 px of an end of the polyline
Suppressed(c) ==
  /\ c.draw_dash
  /\ (near_any_circle(c.mid, Circles, 0) \/ c.near_end)

\* p lies on the segment a-b, to within an eighth of a pixel
OnLine(p, a, b) ==
  /\ p[1] >= Min2(a[1], b[1]) - 2
  /\ p[1] <= Max2(a[1], b[1]) + 2
  /\ p[2] >= Min2(a[2], b[2]) - 2
  /\ p[2] <= Max2(a[2], b[2]) + 2
  /\ Abs((b[1] - a[1]) * (p[2] - a[2]) - (b[2] - a[2]) * (p[1] - a[1]))
       <= 2 * ISqrt(dist2(a, b))

\* the emitted line cmd runs over the stretch of dash c
Covers(cmd, c) ==
  \E k \in 1..(Len(cmd.pts) - 1) :
    /\ OnLine(c.s, cmd.pts[k], cmd.pts[k + 1])
    /\ OnLine(c.e, cmd.pts[k], cmd.pts[k + 1])

\* C17: of a special trail, no emitted line covers the stretch of a dash
\* whose midpoint is inside a diamond's clearance circle or within 10 px of
\* an end of the polyline, while the dashes that are clear of both are emitted
DashAbsent ==
  SpecialStroked =>
    LET ds == dashes(LastTrail.poly, Circles)
    IN  \A n \in 1..Len(ds) :
          /\ Suppressed(ds[n]) =>
               ~ \E m \in 1..Len(draw_cmds) : Covers(draw_cmds[m], ds[n])
          /\ dash_drawn(ds[n]) =>
               \E m \in 1..Len(draw_cmds) : draw_cmds[m].pts = <<ds[n].s, ds[n].e>>

\* the back pointers lead to the start: the start has none, every other
\* reached cell has one, and the cost so far falls along each of them
BackPointersSound ==
  /\ search.start \notin DOMAIN search.came
  /\ DOMAIN search.g = DOMAIN search.came \cup {search.start}
  /\ \A n \in DOMAIN search.came :
       /\ search.came[n] \in DOMAIN search.g
       /\ search.g[search.came[n]] < search.g[n]

\* what _astar returned: a route rebuilt from the goal back to the start,
\* or the empty route with the open queue exhausted
ReturnedRoute ==
  IF search.path = << >>
  THEN search.openq = {}
  ELSE /\ search.path[1] = search.start
       /\ search.path[Len(search.path)] = search.goal
       /\ \A k \in 2..Len(search.path) : search.came[search.path[k]] = search.path[k - 1]

\* C18: _astar terminates whatever the start, goal, blocked cells, used
\* edges and jitters: it returns a route when the goal is popped or the empty
\* route when the open queue is exhausted, and the back pointers, which
\* always lead to the start, rebuild the route from the goal to the start
AstarTerminates ==
  /\ [](pc = "astar" => BackPointersSound)
  /\ [](Routed => ReturnedRoute)
  /\ <>Routed

\* the search gave up with the queue exhausted after reaching two cells or more
AstarTerminatesWitness ==
  /\ Routed
  /\ search.path = << >>
  /\ search.openq = {}
  /\ Cardinality(DOMAIN search.came) >= 2

\* the lattice edges whose step cost carries the corridor-reuse penalty
Penalised ==
  {e \in router.used_edges :
     step_cost(router.used_edges, e[1], e[2], 0) = STEP + REUSE_PENALTY}

\* C19: while a connector is routed, with no trail accepted earlier in the
\* same pass no edge carries the reuse penalty: the first connector of every
\* pass, a second pass on the same router included, sees every step at its
\* plain cost
PenaltySamePass ==
  (pc = "astar" /\ Len(PassTrails) = 0) =>
    /\ Penalised = {}
    /\ \A c \in Cells(grid) : \A k \in 1..Len(neighbors(grid, c)) :
         step_cost(router.used_edges, c, neighbors(grid, c)[k], 0) = STEP

\* the polyline of the route just returned comes nearer than NO_OVERLAP_DIST
\* to a point of a trail drawn earlier in the pass
TooClose ==
  LET poly == trail_poly(grid, search.path, frame.diamond_radius)
  IN  \E k \in 1..Len(poly) : \E m \in 1..Len(frame.existing_samples) :
        dist2(poly[k], frame.existing_samples[m])
          < (NO_OVERLAP_DIST * SUB) * (NO_OVERLAP_DIST * SUB)

\* the connector whose route was just returned is dropped: no route, or too
\* close to an earlier trail
Dropped == Len(search.path) < 2 \/ TooClose

\* the step that ends connector i of a pass
ConnectorEnds == pc = "routed" /\ pc' = "connector"

\* the three parts of the pass state and the draw commands stay as they are
PassStateKept ==
  /\ frame'.existing_samples = frame.existing_samples
  /\ router'.used_edges = router.used_edges
  /\ router'.samples_log = router.samples_log
  /\ draw_cmds' = draw_cmds

\* C20: within a pass the already-drawn samples, the used edges and the log
\* change exactly when a connector is accepted: then the polyline's points
\* are appended to the samples, every edge of the route joins the used edges
\* and (style, polyline) is appended to the log, with new draw commands;
\* a dropped connector changes none of them and emits no draw command; either
\* way the chain moves on to the next connector, which starts from the next
\* pair of the chain
FrameEffect ==
  [][ /\ (InPass /\ pc' \in {"connector", "astar", "routed"} /\ ~ConnectorEnds)
        => PassStateKept
      /\ (pc = "connector" /\ pc' = "astar")
        => /\ search'.start = frame.pts[frame.i + 1]
           /\ search'.goal = frame.pts[frame.i + 2]
           /\ frame'.i = frame.i
      /\ ConnectorEnds
        => /\ frame'.i = frame.i + 1
           /\ IF Dropped
              THEN PassStateKept
              ELSE LET poly == trail_poly(grid, search.path, frame.diamond_radius)
                   IN  /\ frame'.existing_samples = frame.existing_samples \o poly
                       /\ router'.used_edges = router.used_edges \cup
                            {edge_key(search.path[k], search.path[k + 1]) :
                               k \in 1..(Len(search.path) - 1)}
                       /\ router'.samples_log =
                            Append(router.samples_log, [style |-> frame.style, poly |-> poly])
                       /\ Len(draw_cmds') > Len(draw_cmds)
                       /\ SubSeq(draw_cmds', 1, Len(draw_cmds)) = draw_cmds
                       /\ draw_cmds'[Len(draw_cmds) + 1].pts = poly
    ]_vars

\* a pass in which one connector was accepted and another dropped
FrameEffectWitness ==
  /\ pc = "connector"
  /\ frame.i >= 2
  /\ Len(PassTrails) >= 1
  /\ Len(PassTrails) < frame.i

\* the lattice cell nearest a polyline point
CellAt(p) == closest_node(grid, <<RoundDiv(p[1], SUB), RoundDiv(p[2], SUB)>>)

\* the cells of the two diamonds a logged trail joins
TrailEnds(t) == {CellAt(t.poly[1]), CellAt(t.poly[Len(t.poly)])}

\* a logged trail whose route has 3 cells or more: only a 2-cell route keeps
\* a polyline of 2 points
LongTrail(t) == Len(t.poly) >= 3

\* adjacent cell centres are less than 112 px apart
CloseLattice ==
  \A c \in Cells(grid) : \A k \in 1..Len(neighbors(grid, c)) :
    dist2(node_lookup(grid, c), node_lookup(grid, neighbors(grid, c)[k])) < 112 * 112

\* the trails of this pass with a route of 3 cells or more that share a
\* diamond with the connector being routed
SharingTrails ==
  {k \in 1..Len(PassTrails) :
     /\ LongTrail(PassTrails[k])
     /\ TrailEnds(PassTrails[k]) \cap {search.start, search.goal} # {}}

\* C21: where adjacent cell centres are less than 112 px apart, two
\* connectors of one pass that share a diamond and whose routes both have 3
\* cells or more are never both accepted: the later one fails the spacing
\* guard against the earlier one, and no two such trails are in the log
NeverBothAccepted ==
  (InPass /\ CloseLattice) =>
    /\ (Routed /\ Len(search.path) >= 3 /\ SharingTrails # {}) => TooClose
    /\ \A j \in 1..Len(PassTrails) : \A k \in 1..Len(PassTrails) :
         (j < k /\ LongTrail(PassTrails[j]) /\ LongTrail(PassTrails[k]))
           => TrailEnds(PassTrails[j]) \cap TrailEnds(PassTrails[k]) = {}

\* on the lattice with cells 109 px apart, a route of 3 cells or more returned
\* for a connector that shares a diamond with an accepted trail of 3 cells or more
NeverBothAcceptedWitness ==
  /\ Routed
  /\ layout.rect = NearRect
  /\ CloseLattice
  /\ Len(search.path) >= 3
  /\ SharingTrails # {}
  /\ TooClose

\* the route just returned is accepted: its polyline is stroked and logged
Accepted == Routed /\ frame.via # "none" /\ ~Dropped

\* the centre of a lattice cell, in sub-pixels
CentreOf(c) == <<SUB * node_lookup(grid, c)[1], SUB * node_lookup(grid, c)[2]>>

\* the glyph clearance of the pass, diamond_radius + 2, in sub-pixels
GlyphClear == (frame.diamond_radius + 2) * SUB

\* p lies at the glyph clearance from centre c, to within an eighth of a
\* pixel, on the ray from c through q
TrimmedToward(p, c, q) ==
  /\ dist2(p, c) >= (GlyphClear - 2) * (GlyphClear - 2)
  /\ dist2(p, c) <= (GlyphClear + 2) * (GlyphClear + 2)
  /\ Abs((q[1] - c[1]) * (p[2] - c[2]) - (q[2] - c[2]) * (p[1] - c[1]))
       <= 2 * ISqrt(dist2(q, c))
  /\ (q[1] - c[1]) * (p[1] - c[1]) + (q[2] - c[2]) * (p[2] - c[2]) > 0

\* each end of the polyline sits on the rim of its diamond's clearance
\* circle, toward the next point of the polyline
EndsTrimmed ==
  LET poly == trail_poly(grid, search.path, frame.diamond_radius)
      n    == Len(poly)
  IN  /\ TrimmedToward(poly[1], CentreOf(search.start), poly[2])
      /\ TrimmedToward(poly[n], CentreOf(search.goal), poly[n - 1])

\* no point of the polyline is inside the clearance circle of either of
\* the trail's two diamonds
OutsideOwnGlyphs ==
  LET poly == trail_poly(grid, search.path, frame.diamond_radius)
  IN  \A k \in 1..Len(poly) :
        /\ dist2(poly[k], CentreOf(search.start)) >= (GlyphClear - 2) * (GlyphClear - 2)
        /\ dist2(poly[k], CentreOf(search.goal)) >= (GlyphClear - 2) * (GlyphClear - 2)

\* C22: an accepted trail's polyline stays out of its two diamonds' glyphs:
\* each end lies at glyph_radius + 2 from its diamond's centre toward the
\* next polyline point, and no point lies closer than that to either centre
StaysOutOfGlyphs == Accepted => (EndsTrimmed /\ OutsideOwnGlyphs)

\* the line from s to e of turn c of the dash loop is among the draw commands
DashEmitted(c) == \E m \in 1..Len(draw_cmds) : draw_cmds[m].pts = <<c.s, c.e>>

\* the stretch of turn c is 8 px long, to within an eighth of a pixel, or
\* runs up to the end of its segment
FullDash(c, poly) ==
  \/ /\ dist2(c.s, c.e) >= (DASH_LEN * SUB - 2) * (DASH_LEN * SUB - 2)
     /\ dist2(c.s, c.e) <= (DASH_LEN * SUB + 2) * (DASH_LEN * SUB + 2)
  \/ /\ dist2(c.s, c.e) < (DASH_LEN * SUB) * (DASH_LEN * SUB)
     /\ dist2(c.e, poly[c.seg + 1]) <= 4

\* C23: a special trail is drawn as 8 px dashes with 6 px gaps: along each
\* segment a dash starts every 14 px (0-8, 14-22, ...), each one emitted
\* unless its midpoint is near a diamond or an end of the polyline, and a
\* dash is shorter than 8 px only where the segment ends
DashEvery14 ==
  SpecialStroked =>
    LET ds == dashes(LastTrail.poly, Circles)
    IN  \A n \in 1..Len(ds) :
          /\ FullDash(ds[n], LastTrail.poly)
          /\ (~ds[n].near_end /\ ~ds[n].near_circle) => DashEmitted(ds[n])

\* a difficult or dangerous trail of this pass has been stroked and is the
\* last one logged
OrnamentStroked ==
  /\ pc = "connector"
  /\ Len(PassTrails) >= 1
  /\ LastTrail.style \in {"difficult", "dangerous"}

\* the index of the main stroke of the last trail among the draw commands;
\* the commands after it are its ornaments
LastMain ==
  CHOOSE m \in 1..Len(draw_cmds) :
    /\ draw_cmds[m].pts = LastTrail.poly
    /\ \A m2 \in (m + 1)..Len(draw_cmds) : draw_cmds[m2].pts # LastTrail.poly

\* where an ornament sits: the apex of a chevron, the middle of a tick
OrnamentAt(cmd) ==
  IF Len(cmd.pts) = 3 THEN cmd.pts[2]
  ELSE <<(cmd.pts[1][1] + cmd.pts[2][1]) \div 2, (cmd.pts[1][2] + cmd.pts[2][2]) \div 2>>

\* p is within 4 px of a clearance circle of the pass, or inside one
NearGlyph(p) ==
  \E k \in 1..Len(Circles) :
    dist2(p, <<SUB * Circles[k][1], SUB * Circles[k][2]>>)
      <= ((Circles[k][3] + 4) * SUB) * ((Circles[k][3] + 4) * SUB)

\* p is within 10 px of an end of the last trail's polyline
NearTrailEnd(p) ==
  \/ dist2(p, LastTrail.poly[1]) < (10 * SUB) * (10 * SUB)
  \/ dist2(p, LastTrail.poly[Len(LastTrail.poly)]) < (10 * SUB) * (10 * SUB)

\* C24: every tick of a difficult trail and every chevron of a dangerous
\* one sits at a resampled position other than the first and the last, more
\* than 4 px clear of every diamond's clearance circle and 10 px or more
\* from both ends of the polyline
OrnamentsClear ==
  OrnamentStroked =>
    LET sp == step_points(LastTrail.poly, LastTrail.style)
    IN  \A m \in (LastMain + 1)..Len(draw_cmds) :
          LET c == OrnamentAt(draw_cmds[m])
          IN  /\ \E i \in 2..(Len(sp) - 1) : sp[i] = c
              /\ c # sp[1]
              /\ c # sp[Len(sp)]
              /\ ~NearGlyph(c)
              /\ ~NearTrailEnd(c)

\* a trail with an ornament drawn and with a resampled position, 10 px or
\* more from both ends, left bare for being near a diamond
OrnamentsClearWitness ==
  /\ OrnamentStroked
  /\ LastMain < Len(draw_cmds)
  /\ \E i \in 2..(Len(step_points(LastTrail.poly, LastTrail.style)) - 1) :
       LET c == step_points(LastTrail.poly, LastTrail.style)[i]
       IN  NearGlyph(c) /\ ~NearTrailEnd(c)

\* point j of the reference cut of polyline s: the first point, then for
\* each edge (a, b) in order the points 0.75a + 0.25b and 0.25a + 0.75b,
\* then the last point
RefPoint(s, j) ==
  LET k == j \div 2
      q(a, b) == <<(3 * a[1] + b[1]) \div 4, (3 * a[2] + b[2]) \div 4>>
  IN  IF j = 1 THEN s[1]
      ELSE IF j = 2 * Len(s) THEN s[Len(s)]
      ELSE IF j % 2 = 0 THEN q(s[k], s[k + 1])
      ELSE q(s[k + 1], s[k])

RefCut(s) == [j \in 1..(2 * Len(s)) |-> RefPoint(s, j)]

RECURSIVE RefCuts(_, _)
RefCuts(s, iters) == IF iters = 0 THEN s ELSE RefCuts(RefCut(s), iters - 1)

\* the cut points of the two iterations fall on whole sub-pixels: no rounding
ExactCuts(s) ==
  /\ \A k \in 1..(Len(s) - 1) : \A x \in 1..2 : (3 * s[k][x] + s[k + 1][x]) % 4 = 0
  /\ \A k \in 1..(Len(s) - 1) : \A x \in 1..2 : (s[k][x] + 3 * s[k + 1][x]) % 4 = 0

\* C25: _chaikin is the reference corner cutting: a polyline of fewer than
\* 3 points comes back unchanged, one of n >= 3 points is cut iters times,
\* and a route's polyline is cut exactly twice, into 4n points, before its
\* two ends are trimmed
ChaikinIsReference ==
  /\ Smoothed =>
       LET pts == probe.args[1]
       IN  IF Len(pts) < 3 THEN probe.out = pts
           ELSE /\ probe.out = RefCuts(pts, probe.args[2])
                /\ probe.args[2] = 2 =>
                     /\ Len(probe.out) = 4 * Len(pts)
                     /\ ExactCuts(pts)
                     /\ ExactCuts(RefCut(pts))
  /\ (Routed /\ frame.via # "none" /\ Len(search.path) >= 2) =>
       LET raw  == poly_from_axial(grid, search.path)
           poly == trail_poly(grid, search.path, frame.diamond_radius)
           n    == Len(raw)
       IN  IF n < 3 THEN Len(poly) = 2
           ELSE /\ Len(poly) = 4 * n
                /\ ExactCuts(raw)
                /\ ExactCuts(RefCut(raw))
                /\ \A j \in 2..(4 * n - 1) : poly[j] = RefCuts(raw, 2)[j]

\* a route of 4 cells or more smoothed into 4n points
ChaikinIsReferenceWitness ==
  /\ Routed
  /\ frame.via # "none"
  /\ Len(search.path) >= 4
  /\ Len(trail_poly(grid, search.path, frame.diamond_radius)) = 4 * Len(search.path)

\* the cells reachable from the frontier round the blocked cells, each with
\* its number of hops: breadth first, d the hops of the frontier
RECURSIVE Layers(_, _, _, _)
Layers(frontier, seen, blocked, d) ==
  IF frontier = {} THEN {}
  ELSE LET nxt == UNION {{n \in SeqToSet(neighbors(grid, c)) : n \notin blocked} :
                           c \in frontier} \ seen
       IN  {<<c, d>> : c \in frontier} \cup Layers(nxt, seen \cup nxt, blocked, d + 1)

\* the sets of blocked cells tried: none, the centre, a wall down the middle
BlockedSets == { {}, {<<0, 0>>}, {<<0, -1>>, <<0, 0>>, <<0, 1>>} }

\* C26: on every built lattice the heuristic is a whole number of steps, is
\* 0 exactly between a cell and itself, and never exceeds the hops of a
\* shortest path between two cells round any set of blocked cells
Admissible ==
  Built =>
    /\ \A a, b \in Cells(grid) :
         /\ astar_h(a, b) % STEP = 0
         /\ astar_h(a, b) >= 0
         /\ astar_h(a, b) = 0 <=> a = b
    /\ \A B \in BlockedSets : \A a \in Cells(grid) \ B :
         \A e \in Layers({a}, {a}, B, 0) : astar_h(a, e[1]) <= STEP * e[2]

\* a lattice where the wall makes a shortest path longer than the heuristic,
\* and where two cells are 4 hops apart with a heuristic of 4
AdmissibleWitness ==
  /\ Built
  /\ \E a \in Cells(grid) :
       \E e \in Layers({a}, {a}, {<<0, -1>>, <<0, 0>>, <<0, 1>>}, 0) :
         astar_h(a, e[1]) < STEP * e[2]
  /\ \E a \in Cells(grid) :
       \E e \in Layers({a}, {a}, {}, 0) : e[2] = 4 /\ astar_h(a, e[1]) = STEP * 4

\* C27: every route _astar returns is a simple path, no cell twice in it:
\* while the search runs the start has no back pointer and the recorded
\* cost falls strictly along every back pointer
SimplePath ==
  /\ pc = "astar" =>
       /\ search.start \notin DOMAIN search.came
       /\ \A n \in DOMAIN search.came : search.g[search.came[n]] < search.g[n]
  /\ Routed => Cardinality(PathCells(search.path)) = Len(search.path)

\* a route of 5 cells or more returned after the search reached cells off it
SimplePathWitness ==
  /\ Routed
  /\ Len(search.path) >= 5
  /\ Cardinality(DOMAIN search.came) > Len(search.path)

\* the generator state render captures before seeding: the ambient state,
\* after the draws of a random placement when there was one
Captured ==
  IF Truthy(marks) THEN rng ELSE [rng EXCEPT !.pos = @ + 2 + Len(last_marks')]

TooFewCellsRaises ==
  /\ (marks.list = << >> /\ Len(grid.nodes) < 3) => ~InPass
  /\ (Rendered /\ marks.list = << >> /\ Len(grid.nodes) < 3) =>
       /\ error \in {"ValueError", "ZeroDivisionError"}
       /\ error = "ZeroDivisionError" <=> DrawGridRaises(grid.cells_across, layout.rect)
       /\ last_diamonds = << >>
       /\ last_marks = << >>
       /\ router.samples_log = << >>
       /\ router.used_edges = {}
       /\ draw_cmds = << >>
       /\ frame = IdleFrame
       /\ ~rng.seeded

\* a render with an empty list of marks on a lattice of one cell came back
\* with the ValueError
TooFewCellsWitness ==
  /\ Rendered
  /\ marks = Given(<< >>)
  /\ Len(grid.nodes) = 1
  /\ error = "ValueError"

\* positions of the supplied list whose cell index lies within the lattice
InRange == {j \in 1..Len(marks.list) : 0 <= marks.list[j][1] /\ marks.list[j][1] < Len(grid.nodes)}

\* the k-th of those positions, in the supplied order
KthInRange(k) == CHOOSE j \in InRange : Cardinality({i \in InRange : i < j}) = k - 1

\* a render of supplied marks has run on a lattice draw_grid could build
SuppliedRendered ==
  /\ call.op = "render"
  /\ marks.given
  /\ marks.list # << >>
  /\ ~DrawGridRaises(grid.cells_across, layout.rect)

\* C30: after a render of supplied marks, last_marks is the supplied pairs
\* with an index inside the cell list, in the supplied order, last_diamonds
\* is one diamond on the centre of each such cell with its label, the pairs
\* with a negative index or one past the end are left out, and no error is
\* raised
SuppliedMarksKept ==
  SuppliedRendered =>
    /\ error = "none"
    /\ Len(last_marks) = Cardinality(InRange)
    /\ Len(last_diamonds) = Cardinality(InRange)
    /\ \A k \in 1..Len(last_marks) :
         LET mk == marks.list[KthInRange(k)]
             c  == centers(grid)[mk[1] + 1]
         IN  /\ last_marks[k] = mk
             /\ last_diamonds[k] = <<c[1], c[2], mk[2]>>

\* MarksMixed was rendered on the 7-cell lattice: the first and third pair
\* were kept in that order, the negative index and the index 7 were skipped,
\* and the pass is over
SuppliedMarksKeptWitness ==
  /\ Rendered
  /\ marks = Given(MarksMixed)
  /\ Len(grid.nodes) = 7
  /\ last_marks = << <<6, 1>>, <<0, 3>> >>
  /\ Len(last_diamonds) = 2
  /\ error = "none"

====
